---- MODULE Spec2Model ----
(***************************************************************************)
(* AutoTutorial: the four-stage generation pipeline (src/src/pipeline.py), *)
(* its text-contract utilities and argument normaliser (src/src/utils.py)  *)
(* and the record extractor (src/src/data_loader.py).                      *)
(*                                                                         *)
(* Texts are sequences of tokens.  A token stands for one literal piece of *)
(* text the code looks for, or for a run of other characters:              *)
(*   "TAG"   the chapter delimiter  <!-- CHAPTER_START -->                 *)
(*   "LBL"   the label  Mapped Case ID   ("lbl": the same in lower case)   *)
(*   "P1","P2"  the tokens problem_1, problem_2                            *)
(*   "NL","SP"  a newline, a blank                                         *)
(*   "F"     a code fence ```        "json"  the word json                 *)
(*   "OBJ"   the text of a JSON object holding book_title,                 *)
(*           preface_markdown and appendix_markdown                        *)
(*   "OBJ0"  the text of a JSON object holding none of these keys          *)
(*   "ARR","NUM","STR","NUL"  the text of a JSON array, number, string,    *)
(*           null                                                          *)
(*   "W"     any other text                                                *)
(* A stored content is a pair <<tag, n>>.                                  *)
(***************************************************************************)
EXTENDS Integers, Sequences, FiniteSets, TLC

VARIABLES
    pc,           \* position of run_all / of the stage being run
    disk,         \* the artifact directories (processed/ and output/)
    log,          \* LLM calls and file writes of this run, in order
    chunks,       \* run_step3: the blocks of the outline
    ci,           \* run_step3: number of blocks already handled
    chapter_idx,  \* run_step3: chapter_idx
    drafts,       \* run_step3: drafts (the list returned), None as <<"None">>
    raised,       \* "" or the exception that left run_all
    warned,       \* run_step2 printed the missing-tag warning
    input_args,   \* clean_input_args: the argument, a mapping as its items in order
    strict,       \* clean_input_args: strict_defaults
    clean_args,   \* clean_input_args: the mapping returned
    tree,         \* DataLoader.process: the raw directory tree
    report,       \* DataLoader.process: final_report
    block,        \* extract_mapped_case_ids: chapter_content
    ids,          \* extract_mapped_case_ids: the ids returned
    data,         \* DataLoader._parse_json_file: the mapping json.load returns
    simulated_files  \* DataLoader._parse_json_file: the view returned

vars == <<pc, disk, log, chunks, ci, chapter_idx, drafts, raised, warned,
          input_args, strict, clean_args, tree, report,
          block, ids, data, simulated_files>>

argVars == <<input_args, strict, clean_args>>
scanVars == <<tree, report>>
extractVars == <<block, ids>>
parseVars == <<data, simulated_files>>

----------------------------------------------------------------------------
(* Bounds of the model *)

\* most segments of an outline reply (pieces between delimiters)
MaxSegments == 3
\* most chapter draft files left on disk by an earlier run
MaxStaleDrafts == 2
\* run_step4 alone: the largest chapter number on disk, the most draft files
MaxChapterNo == 11
MaxDraftFiles == 3
\* most keys of a mapping passed to clean_input_args
MaxArgs == 2
\* most files of a raw directory tree
MaxTreeFiles == 3

----------------------------------------------------------------------------
(* Python string primitives on token sequences *)

Whitespace == {"NL", "SP"}

\* s[a..b], empty when a > b
Slice(s, a, b) == IF a > b THEN <<>> ELSE SubSeq(s, a, b)

StartsWith(s, p) == Len(p) <= Len(s) /\ SubSeq(s, 1, Len(p)) = p

EndsWith(s, p) ==
    Len(p) <= Len(s) /\ SubSeq(s, Len(s) - Len(p) + 1, Len(s)) = p

\* pat in s
Contains(s, pat) ==
    \E i \in 1..(Len(s) - Len(pat) + 1) : SubSeq(s, i, i + Len(pat) - 1) = pat

\* str.replace(pat, rep): every non-overlapping occurrence, left to right
RECURSIVE Replace(_, _, _)
Replace(s, pat, rep) ==
    IF Len(s) = 0 THEN <<>>
    ELSE IF StartsWith(s, pat)
         THEN rep \o Replace(Slice(s, Len(pat) + 1, Len(s)), pat, rep)
         ELSE <<Head(s)>> \o Replace(Tail(s), pat, rep)

RECURSIVE LStrip(_)
LStrip(s) ==
    IF Len(s) > 0 /\ Head(s) \in Whitespace THEN LStrip(Tail(s)) ELSE s

RECURSIVE RStrip(_)
RStrip(s) ==
    IF Len(s) > 0 /\ s[Len(s)] \in Whitespace
    THEN RStrip(SubSeq(s, 1, Len(s) - 1)) ELSE s

\* str.strip()
Strip(s) == RStrip(LStrip(s))

\* str.split(sep) for a non-empty separator: the pieces between occurrences
RECURSIVE SplitAcc(_, _, _)
SplitAcc(s, sep, cur) ==
    IF Len(s) = 0 THEN <<cur>>
    ELSE IF StartsWith(s, sep)
         THEN <<cur>> \o SplitAcc(Slice(s, Len(sep) + 1, Len(s)), sep, <<>>)
         ELSE SplitAcc(Tail(s), sep, Append(cur, Head(s)))

PySplit(s, sep) == SplitAcc(s, sep, <<>>)

----------------------------------------------------------------------------
(* src/src/utils.py: the text-contract utilities *)

CHAPTER_START == <<"TAG">>

LabelTokens == {"LBL", "lbl"}
ProblemTokens == {"P1", "P2"}

NonEmptyStripped(p) == Strip(p) # <<>>

split_markdown_by_tag(content, tag) ==
    LET parts == PySplit(content, tag)
        kept == SelectSeq(parts, NonEmptyStripped)
    IN  [i \in 1..Len(kept) |-> Strip(kept[i])]

\* the first index j > i of a problem token, 0 when there is none
FirstProblemAfter(s, i) ==
    IF \E j \in (i + 1)..Len(s) : s[j] \in ProblemTokens
    THEN CHOOSE j \in (i + 1)..Len(s) :
            /\ s[j] \in ProblemTokens
            /\ \A k \in (i + 1)..(j - 1) : s[k] \notin ProblemTokens
    ELSE 0

\* re.findall(r"Mapped Case ID.*?(problem_\d+)", s, re.IGNORECASE) from
\* position i on: '.' does not match a newline, and the scan goes on behind
\* the end of a match
RECURSIVE FindAllFrom(_, _)
FindAllFrom(s, i) ==
    IF i > Len(s) THEN {}
    ELSE LET j == FirstProblemAfter(s, i)
             hit == /\ s[i] \in LabelTokens
                    /\ j # 0
                    /\ \A k \in (i + 1)..(j - 1) : s[k] # "NL"
         IN  IF hit THEN {s[j]} \cup FindAllFrom(s, j + 1)
             ELSE FindAllFrom(s, i + 1)

\* the same pattern with re.DOTALL: '.' matches a newline too
RECURSIVE FindAllDotAllFrom(_, _)
FindAllDotAllFrom(s, i) ==
    IF i > Len(s) THEN {}
    ELSE LET j == FirstProblemAfter(s, i)
         IN  IF s[i] \in LabelTokens /\ j # 0
             THEN {s[j]} \cup FindAllDotAllFrom(s, j + 1)
             ELSE FindAllDotAllFrom(s, i + 1)

extract_mapped_case_ids_dotall(chapter_content) ==
    FindAllDotAllFrom(chapter_content, 1)

\* list(set(ids)): the set of ids
extract_mapped_case_ids(chapter_content) == FindAllFrom(chapter_content, 1)

----------------------------------------------------------------------------
(* Python conversions used by the pipeline *)

DigitChars == <<"0", "1", "2", "3", "4", "5", "6", "7", "8", "9">>

\* str(n) for n >= 0: the decimal digits
RECURSIVE PyStrNat(_)
PyStrNat(n) ==
    IF n < 10 THEN <<DigitChars[n + 1]>>
    ELSE PyStrNat(n \div 10) \o <<DigitChars[(n % 10) + 1]>>

DigitValue(c) == CHOOSE d \in 0..9 : DigitChars[d + 1] = c

\* int(s) for a sequence of decimal digits
RECURSIVE PyInt(_)
PyInt(s) ==
    IF Len(s) = 0 THEN 0
    ELSE 10 * PyInt(SubSeq(s, 1, Len(s) - 1)) + DigitValue(s[Len(s)])

JsonObjectTokens == {"OBJ", "OBJ0"}
JsonValueTokens == JsonObjectTokens \cup {"ARR", "NUM", "STR", "NUL"}

\* json.loads(s): <<v>> for the text of one JSON value with blanks around
\* it, <<>> for json.JSONDecodeError
json_loads(s) ==
    LET t == Strip(s)
    IN  IF Len(t) = 1 /\ t[1] \in JsonValueTokens THEN <<t[1]>> ELSE <<>>

\* the sort key of run_step4: int(x.split('_')[-1].split('.')[0])
DraftKey(x) ==
    LET last == PySplit(x, <<"_">>)[Len(PySplit(x, <<"_">>))]
    IN  PyInt(PySplit(last, <<".">>)[1])

\* str < str on sequences of digits: character by character
RECURSIVE LexLess(_, _)
LexLess(a, b) ==
    IF Len(b) = 0 THEN FALSE
    ELSE IF Len(a) = 0 THEN TRUE
    ELSE IF Head(a) = Head(b) THEN LexLess(Tail(a), Tail(b))
    ELSE DigitValue(Head(a)) < DigitValue(Head(b))

\* the digits of a draft file name
DraftDigits(x) == PySplit(PySplit(x, <<"_">>)[Len(PySplit(x, <<"_">>))], <<".">>)[1]

\* a plain draft_files.sort(): names compared as strings
NameLess(x, y) == LexLess(DraftDigits(x), DraftDigits(y))

\* the order of draft_files.sort(key=...): by the integer key
KeyLess(x, y) == DraftKey(x) < DraftKey(y)

\* x put into a sorted list behind every element not greater than it
RECURSIVE InsertSorted(_, _)
InsertSorted(sorted, x) ==
    IF Len(sorted) = 0 THEN <<x>>
    ELSE IF KeyLess(x, Head(sorted))
         THEN <<x>> \o sorted
         ELSE <<Head(sorted)>> \o InsertSorted(Tail(sorted), x)

\* list.sort(key=...): stable
RECURSIVE SortDraftFiles(_)
SortDraftFiles(s) ==
    IF Len(s) = 0 THEN <<>>
    ELSE InsertSorted(SortDraftFiles(SubSeq(s, 1, Len(s) - 1)), s[Len(s)])

----------------------------------------------------------------------------
(* The artifact files *)

DraftPrefix == <<"draft", "_", "chapter", "_">>
MdSuffix == <<".", "md">>

\* f"draft_chapter_{chapter_idx}.md"
DraftFileName(n) == DraftPrefix \o PyStrNat(n) \o MdSuffix

SummaryName == <<"analysis", "_", "summary", ".", "json">>
Step1Name == <<"step1", "_", "result", ".", "json">>
Step1TxtName == Step1Name \o <<".", "txt">>
OutlineName == <<"step2", "_", "outline", ".", "md">>

\* a draft kept in memory only
WriteDraftDeferred(d, name, content) == d

\* open(name, 'w').write(content) of a chapter draft
WriteDraft(d, name, content) ==
    [d EXCEPT !.drafts =
        [f \in DOMAIN d.drafts \cup {name} |->
            IF f = name THEN content ELSE d.drafts[f]]]

\* an LLM call: the reply of a JSON or outline prompt, the chapter block of a
\* drafting prompt
LogLLM(what, n, text) == [op |-> "llm", what |-> what, n |-> n, text |-> text]
LogWrite(what, n) == [op |-> "write", what |-> what, n |-> n, text |-> <<>>]

----------------------------------------------------------------------------
(* The replies of the LLM collaborator (LLMClient.chat returns "" when   *)
(* the call fails)                                                        *)

\* a JSON object in a ```json ... ``` fence
FencedObject == <<"F", "json", "NL", "OBJ", "NL", "F">>

\* replies to the enrichment and to the assembly prompt
JsonReplies ==
    { <<>>, <<"W">>, <<"OBJ">>, <<"OBJ0">>, <<"NL", "OBJ", "NL">>,
      <<"ARR">>, <<"NUM">>, <<"STR">>, <<"NUL">>,
      FencedObject, <<"F", "F", "OBJ">> }

\* the texts between two delimiters of an outline reply
BlockTexts ==
    { <<>>, <<"NL">>, <<"W">>, <<"W", "NL", "LBL", "P1">>, <<"LBL", "NL", "P1">> }

RECURSIVE JoinBlocks(_)
JoinBlocks(bs) ==
    IF Len(bs) = 1 THEN bs[1]
    ELSE bs[1] \o CHAPTER_START \o JoinBlocks(Tail(bs))

\* replies to the outline prompt: up to MaxSegments texts, delimiters between
OutlineReplies ==
    {JoinBlocks(bs) : bs \in UNION {[1..n -> BlockTexts] : n \in 1..MaxSegments}}

\* the reply to the drafting prompt of chapter n
DraftReply(n) == <<"reply", n>>

----------------------------------------------------------------------------
(* src/src/pipeline.py: AutoTutorialPipeline *)

StaleOutline == <<"W", "TAG", "LBL", "P1">>

\* draft_chapter_<n>.md for n in N, as an earlier run left them: the content
\* <<"old", n>> names the file it was written to
StaleDrafts(N) ==
    [f \in {DraftFileName(n) : n \in N} |->
        <<"old", CHOOSE n \in N : DraftFileName(n) = f>>]

\* the artifact directory before a run: what earlier runs may have left
InitDisks ==
    { [summary |-> s, step1json |-> j, step1txt |-> <<>>, outline |-> o,
       drafts |-> StaleDrafts(1..k),
       final |-> <<>>] :
        s \in BOOLEAN, j \in {<<>>, << <<"OBJ", 0>> >>},
        o \in {<<>>, <<StaleOutline>>}, k \in 0..MaxStaleDrafts }

NoDrafts == [none |-> TRUE, list |-> <<>>]

\* run_all, up to the first stage: the summary must exist
RunAll ==
    /\ pc = "idle"
    /\ UNCHANGED <<argVars, scanVars, extractVars, parseVars>>
    /\ pc' = IF disk.summary THEN "step1" ELSE "done"
    /\ UNCHANGED <<disk, log, chunks, ci, chapter_idx, drafts, raised, warned>>

\* run_step1
RunStep1 ==
    /\ pc = "step1"
    /\ UNCHANGED <<argVars, scanVars, extractVars, parseVars>>
    /\ pc' = "step2"
    /\ IF ~disk.summary
       THEN UNCHANGED <<disk, log>>
       ELSE \E response \in JsonReplies :
              LET cleaned_response ==
                      Replace(Replace(response, <<"F", "json">>, <<>>), <<"F">>, <<>>)
                  json_obj == json_loads(cleaned_response)
              IN  IF json_obj # <<>>
                  THEN /\ disk' = [disk EXCEPT !.step1json = << <<json_obj[1], 1>> >>]
                       /\ log' = log \o <<LogLLM("enrich", 0, response),
                                          LogWrite("step1_result.json", 0)>>
                  ELSE /\ disk' = [disk EXCEPT !.step1txt = <<cleaned_response>>]
                       /\ log' = log \o <<LogLLM("enrich", 0, response),
                                          LogWrite("step1_result.json.txt", 0)>>
    /\ UNCHANGED <<chunks, ci, chapter_idx, drafts, raised, warned>>

\* the raw-text file taken for the stage-1 artifact as well
Step1AnyResultExists(d) == d.step1json # <<>> \/ d.step1txt # <<>>

\* os.path.exists(input_path) for step1_result.json
Step1ResultExists(d) == d.step1json # <<>>

\* run_step2
RunStep2 ==
    /\ pc = "step2"
    /\ UNCHANGED <<argVars, scanVars, extractVars, parseVars>>
    /\ pc' = "step3"
    /\ IF ~Step1ResultExists(disk)
       THEN UNCHANGED <<disk, log, warned>>
       ELSE \E response \in OutlineReplies :
              /\ disk' = [disk EXCEPT !.outline = <<response>>]
              /\ log' = log \o <<LogLLM("outline", 0, response),
                                 LogWrite("step2_outline.md", 0)>>
              /\ warned' = ~Contains(response, CHAPTER_START)
    /\ UNCHANGED <<chunks, ci, chapter_idx, drafts, raised>>

\* run_step3, up to the loop over the blocks
RunStep3 ==
    /\ pc = "step3"
    /\ UNCHANGED <<argVars, scanVars, extractVars, parseVars>>
    /\ IF disk.outline = <<>> \/ ~disk.summary
       THEN /\ pc' = "gate"
            /\ drafts' = NoDrafts
            /\ UNCHANGED <<chunks, ci, chapter_idx>>
       ELSE /\ pc' = "step3loop"
            /\ chunks' = split_markdown_by_tag(disk.outline[1], CHAPTER_START)
            /\ drafts' = [none |-> FALSE, list |-> <<>>]
            /\ ci' = 0
            /\ chapter_idx' = 0
    /\ UNCHANGED <<disk, log, raised, warned>>

\* a skipped block counted as a chapter: the index is the block's position
ChapterIndexByPosition(idx, pos) == pos

\* chapter_idx += 1, behind the skip of a block without case ids
NextChapterIndex(idx, pos) == idx + 1

\* run_step3: one pass of the loop.  A block with case ids may fail in the
\* record lookup (get_record_by_id on a record without 'extracted_data')
\* or when its file is opened for writing; the exception leaves run_all.
Step3Chunk ==
    /\ pc = "step3loop"
    /\ UNCHANGED <<argVars, scanVars, extractVars, parseVars>>
    /\ ci < Len(chunks)
    /\ ci' = ci + 1
    /\ LET chunk == chunks[ci + 1]
           case_ids == extract_mapped_case_ids(chunk)
           idx == NextChapterIndex(chapter_idx, ci + 1)
           response == DraftReply(idx)
       IN  IF case_ids = {}
           THEN UNCHANGED <<pc, disk, log, chapter_idx, drafts, raised>>
           ELSE /\ chapter_idx' = idx
                /\ \E failure \in {"none", "lookup", "write"} :
                     CASE failure = "none" ->
                            /\ log' = log \o <<LogLLM("draft", idx, chunk),
                                               LogWrite("draft_chapter", idx)>>
                            /\ drafts' = [drafts EXCEPT !.list = Append(@, response)]
                            /\ disk' = WriteDraft(disk, DraftFileName(idx), response)
                            /\ UNCHANGED <<pc, raised>>
                       [] failure = "lookup" ->
                            /\ pc' = "raised"
                            /\ raised' = "KeyError"
                            /\ UNCHANGED <<disk, log, drafts>>
                       [] failure = "write" ->
                            /\ log' = Append(log, LogLLM("draft", idx, chunk))
                            /\ drafts' = [drafts EXCEPT !.list = Append(@, response)]
                            /\ pc' = "raised"
                            /\ raised' = "OSError"
                            /\ UNCHANGED disk
    /\ UNCHANGED <<chunks, warned>>

\* run_step3: the loop is over, drafts is returned
Step3Return ==
    /\ pc = "step3loop"
    /\ UNCHANGED <<argVars, scanVars, extractVars, parseVars>>
    /\ ci = Len(chunks)
    /\ pc' = "gate"
    /\ UNCHANGED <<disk, log, chunks, ci, chapter_idx, drafts, raised, warned>>

\* a gate that stops on None alone
NotDraftsNoneOnly(d) == d.none

\* not drafts: None and the empty list are false
NotDrafts(d) == d.none \/ d.list = <<>>

\* run_all: if not drafts: return
Gate ==
    /\ pc = "gate"
    /\ UNCHANGED <<argVars, scanVars, extractVars, parseVars>>
    /\ pc' = IF NotDrafts(drafts) THEN "done" ELSE "step4"
    /\ UNCHANGED <<disk, log, chunks, ci, chapter_idx, drafts, raised, warned>>

IsDraftFile(f) == StartsWith(f, DraftPrefix) /\ EndsWith(f, MdSuffix)

RECURSIVE PermsOf(_)
PermsOf(S) ==
    IF S = {} THEN {<<>>}
    ELSE UNION {{<<x>> \o q : q \in PermsOf(S \ {x})} : x \in S}

\* the other names of the directory, which the filter of run_step4 drops
OtherNames(d) ==
    (IF d.summary THEN <<SummaryName>> ELSE <<>>)
      \o (IF d.step1json # <<>> THEN <<Step1Name>> ELSE <<>>)
      \o (IF d.step1txt # <<>> THEN <<Step1TxtName>> ELSE <<>>)
      \o (IF d.outline # <<>> THEN <<OutlineName>> ELSE <<>>)

\* os.listdir(processed_dir): the draft files come in any order (the place
\* of the names the filter drops changes nothing, they are listed first)
Listings(d) == {OtherNames(d) \o q : q \in PermsOf(DOMAIN d.drafts)}

HR == <<"---", 0>>

FallbackMeta ==
    [title |-> <<"fallback_title", 0>>, preface |-> <<"fallback_preface", 0>>,
     appendix |-> <<"fallback_appendix", 0>>]

\* meta_data.get(key, default) on a parsed JSON object
MetaOf(obj) ==
    IF obj = "OBJ"
    THEN [title |-> <<"book_title", 1>>, preface |-> <<"preface_markdown", 1>>,
          appendix |-> <<"appendix_markdown", 1>>]
    ELSE [title |-> <<"ABACUS Tutorial", 0>>, preface |-> <<"", 0>>,
          appendix |-> <<"", 0>>]

\* the cleaning of the assembly reply: response.replace("``````", "").strip()
CleanJson(response) == Strip(Replace(response, <<"F", "F">>, <<>>))

\* the try block of run_step4: "" when it ends normally or in the handler
\* of json.JSONDecodeError, else the exception that leaves it
Step4Raises(response) ==
    LET meta_data == json_loads(CleanJson(response))
    IN  IF meta_data # <<>> /\ meta_data[1] \notin JsonObjectTokens
        THEN "AttributeError" ELSE ""

Step4Meta(response) ==
    LET meta_data == json_loads(CleanJson(response))
    IN  IF meta_data = <<>> THEN FallbackMeta ELSE MetaOf(meta_data[1])

RECURSIVE ChapterParts(_)
ChapterParts(cs) ==
    IF Len(cs) = 0 THEN <<>> ELSE <<Head(cs), HR>> \o ChapterParts(Tail(cs))

\* final_book_content
AssembleBook(meta, full_chapters_content) ==
    <<meta.title, meta.preface, HR>> \o ChapterParts(full_chapters_content)
        \o <<meta.appendix>>

\* run_step4
RunStep4 ==
    /\ pc = "step4"
    /\ UNCHANGED <<argVars, scanVars, extractVars, parseVars>>
    /\ \E listing \in Listings(disk) :
       \E draft_files \in {SortDraftFiles(SelectSeq(listing, IsDraftFile))} :
         LET full_chapters_content ==
                 [i \in 1..Len(draft_files) |-> disk.drafts[draft_files[i]]]
         IN  IF draft_files = <<>>
             THEN /\ pc' = "done"
                  /\ UNCHANGED <<disk, log, raised>>
             ELSE \E response \in JsonReplies :
                    IF Step4Raises(response) # ""
                    THEN /\ pc' = "raised"
                         /\ raised' = Step4Raises(response)
                         /\ log' = Append(log, LogLLM("assemble", 0, response))
                         /\ UNCHANGED disk
                    ELSE /\ pc' = "done"
                         /\ disk' = [disk EXCEPT !.final =
                               <<AssembleBook(Step4Meta(response),
                                              full_chapters_content)>>]
                         /\ log' = log \o <<LogLLM("assemble", 0, response),
                                            LogWrite("final", 0)>>
                         /\ UNCHANGED raised
    /\ UNCHANGED <<chunks, ci, chapter_idx, drafts, warned>>

----------------------------------------------------------------------------
(* The pipeline: one run_all on a directory earlier runs may have filled *)

PipeInit ==
    /\ pc = "idle"
    /\ disk \in InitDisks
    /\ log = <<>>
    /\ chunks = <<>>
    /\ ci = 0
    /\ chapter_idx = 0
    /\ drafts = NoDrafts
    /\ raised = ""
    /\ warned = FALSE

NotCalled == [is_dict |-> FALSE, items |-> <<>>]

ArgsIdle ==
    /\ input_args = NotCalled
    /\ strict = TRUE
    /\ clean_args = NotCalled

ScanIdle ==
    /\ tree = {}
    /\ report = [total_records |-> 0, records |-> <<>>]

ExtractIdle ==
    /\ block = <<>>
    /\ ids = {}

EmptyView == [STRU |-> <<>>, INPUT |-> <<>>, KPT |-> <<>>, physics_steps |-> <<>>]

ParseIdle ==
    /\ data = [kind |-> "dict", calls |-> <<>>]
    /\ simulated_files = EmptyView

Init == PipeInit /\ ArgsIdle /\ ScanIdle /\ ExtractIdle /\ ParseIdle

Next ==
    \/ RunAll
    \/ RunStep1
    \/ RunStep2
    \/ RunStep3
    \/ Step3Chunk
    \/ Step3Return
    \/ Gate
    \/ RunStep4

Spec == Init /\ [][Next]_vars

----------------------------------------------------------------------------
(* What a run did, read off its log *)

IsDraftCall(e) == e.op = "llm" /\ e.what = "draft"
IsDraftWrite(e) == e.op = "write" /\ e.what = "draft_chapter"

DraftCalls == SelectSeq(log, IsDraftCall)
DraftWrites == SelectSeq(log, IsDraftWrite)

Called(what) == \E i \in 1..Len(log) : log[i].op = "llm" /\ log[i].what = what
Wrote(what) == \E i \in 1..Len(log) : log[i].op = "write" /\ log[i].what = what

\* run_step3 has returned its list
Step3Returned == pc \in {"gate", "step4", "done"} /\ ~drafts.none

HasCaseIds(chunk) == extract_mapped_case_ids(chunk) # {}

----------------------------------------------------------------------------
(* C1 *)

\* C1: when run_step3 has returned, the chapter files written in the run are
\* exactly draft_chapter_1 .. draft_chapter_k, k the number of blocks with a
\* mapped case id, and the i-th such block (in outline order) is the one
\* drafted and written under index i; a block without ids takes no index.
C1_DraftIndices ==
    Step3Returned =>
        LET mapped == SelectSeq(chunks, HasCaseIds)
        IN  /\ Len(DraftCalls) = Len(mapped)
            /\ Len(DraftWrites) = Len(mapped)
            /\ \A i \in 1..Len(mapped) :
                 /\ DraftCalls[i].n = i
                 /\ DraftCalls[i].text = mapped[i]
                 /\ DraftWrites[i].n = i
                 /\ DraftFileName(i) \in DOMAIN disk.drafts
                 /\ disk.drafts[DraftFileName(i)] = DraftReply(i)

\* three blocks, the second without case ids: files 1 and 2 were written
C1_Witness ==
    /\ Step3Returned
    /\ Len(chunks) = 3
    /\ HasCaseIds(chunks[1]) /\ ~HasCaseIds(chunks[2]) /\ HasCaseIds(chunks[3])
    /\ Len(DraftWrites) = 2
    /\ DraftWrites[2].n = 2

----------------------------------------------------------------------------
(* C3 *)

\* C3: run_all reaches the Assemble stage (its LLM call, the write of the
\* final document) only when run_step3 returned a non-empty list in the same
\* run; when it returned an empty list or None, run_all returns without an
\* exception, without an Assemble call and with the final document untouched,
\* whatever draft files an earlier run left.
C3_AssembleGated ==
    LET empty == drafts.none \/ drafts.list = <<>>
    IN  /\ (pc = "step4" \/ Called("assemble") \/ Wrote("final")) => ~empty
        /\ (empty /\ pc \in {"gate", "done"}) =>
              /\ raised = ""
              /\ ~Called("assemble")
              /\ disk.final = <<>>

\* run_step3 returned an empty list with a stale draft on disk, and run_all
\* has returned
C3_Witness ==
    /\ pc = "done"
    /\ ~drafts.none /\ drafts.list = <<>>
    /\ DOMAIN disk.drafts # {}
    /\ disk.final = <<>>
    /\ Wrote("step2_outline.md")

----------------------------------------------------------------------------
(* C4, C5 *)

AssembleCalls ==
    {i \in 1..Len(log) : log[i].op = "llm" /\ log[i].what = "assemble"}

\* the reply is the text of one JSON object, blanks around it allowed
IsJsonObjectText(t) == Len(Strip(t)) = 1 /\ Strip(t)[1] \in JsonObjectTokens

\* C4 (as claimed): once run_step4 has called the LLM (a chapter draft exists),
\* the final document is written whatever the reply, no exception leaves the
\* stage, and a reply that is not a JSON object gives the fallback title,
\* preface and appendix.
C4_AlwaysAssembled ==
    \A i \in AssembleCalls :
        /\ raised = ""
        /\ disk.final # <<>>
        /\ ~IsJsonObjectText(log[i].text) =>
              /\ disk.final[1][1] = FallbackMeta.title
              /\ disk.final[1][2] = FallbackMeta.preface
              /\ disk.final[1][Len(disk.final[1])] = FallbackMeta.appendix

\* a JSON object between a ```json line and a ``` line, the object alone
StripFences(t) == Strip(Replace(Replace(t, <<"F", "json">>, <<>>), <<"F">>, <<>>))

\* C5 (as claimed): the fence markers are stripped from the assembly reply, so
\* a reply that is a JSON object in a ```json fence gives the document the
\* object's book_title, preface_markdown and appendix_markdown.
C5_FencedReplyParsed ==
    \A i \in AssembleCalls :
        (log[i].text = FencedObject /\ StripFences(log[i].text) = <<"OBJ">>) =>
            /\ disk.final # <<>>
            /\ disk.final[1][1] = MetaOf("OBJ").title
            /\ disk.final[1][2] = MetaOf("OBJ").preface
            /\ disk.final[1][Len(disk.final[1])] = MetaOf("OBJ").appendix

----------------------------------------------------------------------------
(* C6 *)

EnrichCalls ==
    {i \in 1..Len(log) : log[i].op = "llm" /\ log[i].what = "enrich"}

\* the reply of the Enrich stage was not parsable
EnrichUnparsable(i) == json_loads(StripFences(log[i].text)) = <<>>

\* step1_result.json as an earlier run left it, or absent
Step1Untouched == disk.step1json = <<>> \/ disk.step1json[1][2] = 0

\* C6 (as claimed): after an unparsable Enrich reply the Outline stage of the
\* same run_all calls no LLM and writes no step2_outline.md, from any state of
\* the artifact directory.
C6_OutlineNeverFollows ==
    \A i \in EnrichCalls :
        EnrichUnparsable(i) => ~Called("outline") /\ ~Wrote("step2_outline.md")

\* C6 (amended): after an unparsable Enrich reply the raw text is in
\* step1_result.json.txt, step1_result.json is neither written nor modified,
\* no exception is raised, and the Outline stage that follows does not run
\* (no LLM call, no step2_outline.md written) when no step1_result.json is on
\* disk; when a successful Enrich stage of an earlier run left one, the stage
\* runs on it: it calls the LLM and writes step2_outline.md.
C6_OutlineNeedsStep1Json ==
    \A i \in EnrichCalls :
        EnrichUnparsable(i) =>
            /\ disk.step1txt # <<>>
            /\ Strip(disk.step1txt[1]) = StripFences(log[i].text)
            /\ Step1Untouched
            /\ ~Wrote("step1_result.json")
            /\ pc = "step2" => raised = ""
            /\ pc \notin {"step1", "step2"} =>
                  /\ Called("outline") <=> disk.step1json # <<>>
                  /\ Wrote("step2_outline.md") <=> disk.step1json # <<>>

\* an unparsable reply, no step1_result.json: the Outline stage did nothing
C6_Witness ==
    /\ \E i \in EnrichCalls : EnrichUnparsable(i)
    /\ pc = "step3"
    /\ disk.step1json = <<>>
    /\ disk.step1txt # <<>>
    /\ ~Called("outline")

----------------------------------------------------------------------------
(* C7 *)

OutlineCalls ==
    {i \in 1..Len(log) : log[i].op = "llm" /\ log[i].what = "outline"}

NoDelimiter(t) == \A k \in 1..Len(t) : t[k] # "TAG"

\* a label with a problem token behind it on the same line
LabelledOnOneLine(t) ==
    \E i, j \in 1..Len(t) :
        /\ i < j
        /\ t[i] \in LabelTokens
        /\ t[j] \in ProblemTokens
        /\ \A k \in (i + 1)..(j - 1) : t[k] # "NL"

\* C7 (as claimed): an outline reply without the delimiter is written verbatim
\* and run_step3 then finds no chapter: no drafting call, no draft file, an
\* empty list, also for a reply holding a 'Mapped Case ID: problem_<n>' label.
C7_NoDelimiterNoChapter ==
    \A i \in OutlineCalls :
        NoDelimiter(log[i].text) =>
            /\ disk.outline = <<log[i].text>>
            /\ Step3Returned =>
                  /\ DraftCalls = <<>>
                  /\ DraftWrites = <<>>
                  /\ drafts.list = <<>>

\* C7 (amended): an outline reply without the delimiter is written verbatim
\* with a warning, and a run_step3 that returns has taken the whole reply as
\* one block: it drafted no chapter when the reply has no 'Mapped Case ID'
\* label (in any letter case) followed on the same line by a problem_<n>
\* token, and exactly one chapter (draft_chapter_1.md) when it has one.
C7_NoDelimiterOneBlock ==
    \A i \in OutlineCalls :
        NoDelimiter(log[i].text) =>
            /\ disk.outline = <<log[i].text>>
            /\ warned
            /\ Step3Returned =>
                  IF LabelledOnOneLine(log[i].text)
                  THEN /\ Len(DraftCalls) = 1
                       /\ Len(DraftWrites) = 1
                       /\ DraftWrites[1].n = 1
                       /\ Len(drafts.list) = 1
                  ELSE /\ DraftCalls = <<>>
                       /\ DraftWrites = <<>>
                       /\ drafts.list = <<>>

\* a reply without the delimiter and with a label: one chapter was drafted
C7_Witness ==
    /\ \E i \in OutlineCalls :
          NoDelimiter(log[i].text) /\ LabelledOnOneLine(log[i].text)
    /\ Step3Returned
    /\ Len(DraftWrites) = 1
    /\ warned

----------------------------------------------------------------------------
(* C8 *)

\* the chapters of this run whose handling is complete
ChaptersDone ==
    IF pc = "raised" /\ raised \in {"KeyError", "OSError"}
    THEN chapter_idx - 1 ELSE chapter_idx

\* C8: every chapter draft is on disk, with the whole reply, before the LLM is
\* called for the next chapter; when the stage fails while it handles chapter
\* i+1, the files of chapters 1..i hold their replies.
C8_DraftsPersisted ==
    /\ \A j \in 1..ChaptersDone :
          /\ DraftFileName(j) \in DOMAIN disk.drafts
          /\ disk.drafts[DraftFileName(j)] = DraftReply(j)
    /\ \A p \in 1..Len(log) :
          (IsDraftCall(log[p]) /\ log[p].n > 1) =>
              \E q \in 1..(p - 1) :
                  IsDraftWrite(log[q]) /\ log[q].n = log[p].n - 1

\* run_step3 failed while it handled chapter 3; chapters 1 and 2 are on disk
C8_Witness ==
    /\ pc = "raised"
    /\ raised = "OSError"
    /\ chapter_idx = 3
    /\ Len(DraftWrites) = 2
    /\ disk.drafts[DraftFileName(2)] = DraftReply(2)

----------------------------------------------------------------------------
(* C13 *)

\* C13 (as claimed): when a run of run_all has written the final document, its
\* chapters are the drafts the Draft stage of that run returned, in order, and
\* no others: a draft_chapter_<n>.md an earlier run left, n above the number of
\* chapters drafted now, is not part of it.
C13_OnlyThisRunsDrafts ==
    (pc = "done" /\ Wrote("final")) =>
        /\ Len(disk.final[1]) = 4 + 2 * Len(drafts.list)
        /\ \A i \in 1..Len(drafts.list) :
             disk.final[1][2 * i + 2] = drafts.list[i]

----------------------------------------------------------------------------
(* run_step4 alone, on a directory holding any draft files *)

AssembleDisks ==
    { [summary |-> TRUE, step1json |-> << <<"OBJ", 0>> >>, step1txt |-> <<>>,
       outline |-> <<StaleOutline>>, drafts |-> StaleDrafts(N), final |-> <<>>] :
        N \in {M \in SUBSET (1..MaxChapterNo) : Cardinality(M) <= MaxDraftFiles} }

AssembleInit ==
    /\ pc = "step4"
    /\ disk \in AssembleDisks
    /\ log = <<>>
    /\ chunks = <<>>
    /\ ci = 0
    /\ chapter_idx = 0
    /\ drafts = NoDrafts
    /\ raised = ""
    /\ warned = FALSE
    /\ ArgsIdle
    /\ ScanIdle
    /\ ExtractIdle
    /\ ParseIdle

AssembleNext == RunStep4

SpecAssemble == AssembleInit /\ [][AssembleNext]_vars

\* C2: in the final document the chapter contents stand in strictly ascending
\* order of the integer in their file name (9 before 10), each draft file's
\* content once, behind the title and the preface and before the appendix.
C2_NumericOrder ==
    (pc = "done" /\ disk.final # <<>>) =>
        LET doc == disk.final[1]
            k == Cardinality(DOMAIN disk.drafts)
        IN  /\ Len(doc) = 2 * k + 4
            /\ doc[3] = HR
            /\ \A i \in 1..k :
                 /\ \E f \in DOMAIN disk.drafts : doc[2 + 2 * i] = disk.drafts[f]
                 /\ doc[3 + 2 * i] = HR
            /\ \A i \in 1..(k - 1) : doc[2 + 2 * i][2] < doc[4 + 2 * i][2]
            /\ doc[1] \in {FallbackMeta.title, MetaOf("OBJ").title, MetaOf("OBJ0").title}
            /\ doc[2] \in {FallbackMeta.preface, MetaOf("OBJ").preface,
                           MetaOf("OBJ0").preface}
            /\ doc[Len(doc)] \in {FallbackMeta.appendix, MetaOf("OBJ").appendix,
                                  MetaOf("OBJ0").appendix}

\* draft_chapter_9.md and draft_chapter_10.md: 9's content stands before 10's
C2_Witness ==
    /\ pc = "done"
    /\ disk.final # <<>>
    /\ DOMAIN disk.drafts = {DraftFileName(2), DraftFileName(9), DraftFileName(10)}
    /\ disk.final[1][6] = <<"old", 9>>
    /\ disk.final[1][8] = <<"old", 10>>

----------------------------------------------------------------------------
(* src/src/utils.py: clean_input_args *)

\* Python values: an int, a str (its characters as tokens) or a bool
IntV(n) == [t |-> "int", i |-> n, s |-> <<>>]
StrV(s) == [t |-> "str", i |-> 0, s |-> s]
BoolV(b) == [t |-> "bool", i |-> IF b THEN 1 ELSE 0, s |-> <<>>]

\* str(v)
PyStr(v) ==
    CASE v.t = "int" -> IF v.i < 0 THEN <<"-">> \o PyStrNat(0 - v.i) ELSE PyStrNat(v.i)
      [] v.t = "str" -> v.s
      [] v.t = "bool" -> IF v.i = 1 THEN <<"True">> ELSE <<"False">>

SYSTEM_NOISE ==
    { "abacus_inputs_dir", "stru_file", "stru_type", "job_type", "files",
      "file_format", "step_id", "tool_name", "work_dir", "out_dir", "save_path" }

ABACUS_DEFAULTS ==
    ("suffix" :> StrV(<<"ABACUS">>)) @@ ("calculation" :> StrV(<<"scf">>))
      @@ ("basis_type" :> StrV(<<"lcao">>)) @@ ("symmetry" :> IntV(1))
      @@ ("nspin" :> IntV(1)) @@ ("knorm" :> IntV(0)) @@ ("cal_force" :> IntV(0))
      @@ ("cal_stress" :> IntV(0)) @@ ("esolver_type" :> StrV(<<"ksdft">>))
      @@ ("smearing_method" :> StrV(<<"gauss">>))
      @@ ("mixing_type" :> StrV(<<"broyden">>)) @@ ("out_chg" :> IntV(0))
      @@ ("out_bandgap" :> IntV(0)) @@ ("deepks_out_labels" :> IntV(0))
      @@ ("out_stru" :> IntV(0)) @@ ("start_charge" :> StrV(<<"atomic">>))

\* a bool compared as it is
BoolKept(v) == v

\* if isinstance(v, bool): v = 1 if v else 0
BoolToInt(v) == IF v.t = "bool" THEN IntV(v.i) ELSE v

\* the loop of clean_input_args over input_args.items()
RECURSIVE CleanItems(_, _)
CleanItems(items, strict_defaults) ==
    IF Len(items) = 0 THEN <<>>
    ELSE LET k == Head(items)[1]
             v == BoolToInt(Head(items)[2])
             rest == CleanItems(Tail(items), strict_defaults)
         IN  IF k \in SYSTEM_NOISE THEN rest
             ELSE IF /\ strict_defaults
                     /\ k \in DOMAIN ABACUS_DEFAULTS
                     /\ PyStr(v) = PyStr(ABACUS_DEFAULTS[k])
                  THEN rest
                  ELSE << <<k, v>> >> \o rest

\* clean_input_args: an argument that is no dict is returned as it is
clean_input_args(args, strict_defaults) ==
    IF ~args.is_dict THEN args
    ELSE [is_dict |-> TRUE, items |-> CleanItems(args.items, strict_defaults)]

\* the keys and values the mappings passed are built from
ArgKeys == {"work_dir", "step_id", "symmetry", "calculation", "cal_force", "ecutwfc"}

ArgValues ==
    { IntV(0), IntV(1), StrV(<<"1">>), StrV(<<"scf">>), StrV(<<"relax">>),
      BoolV(TRUE), BoolV(FALSE) }

\* the mappings of up to MaxArgs keys, in every iteration order
ArgMappings ==
    { m \in UNION {[1..n -> ArgKeys \X ArgValues] : n \in 0..MaxArgs} :
        \A i, j \in 1..Len(m) : i # j => m[i][1] # m[j][1] }

ArgInputs ==
    {[is_dict |-> TRUE, items |-> m] : m \in ArgMappings}
        \cup {[is_dict |-> FALSE, items |-> <<>>]}

ArgsInit ==
    /\ pc = "args_call"
    /\ input_args \in ArgInputs
    /\ strict \in BOOLEAN
    /\ clean_args = NotCalled
    /\ disk \in {d \in InitDisks : ~d.summary /\ d.drafts = <<>> /\ d.outline = <<>>
                                    /\ d.step1json = <<>>}
    /\ log = <<>>
    /\ chunks = <<>>
    /\ ci = 0
    /\ chapter_idx = 0
    /\ drafts = NoDrafts
    /\ raised = ""
    /\ warned = FALSE
    /\ ScanIdle
    /\ ExtractIdle
    /\ ParseIdle

\* a call of clean_input_args
CallClean ==
    /\ pc = "args_call"
    /\ pc' = "args_done"
    /\ clean_args' = clean_input_args(input_args, strict)
    /\ UNCHANGED <<input_args, strict, scanVars, extractVars, parseVars>>
    /\ UNCHANGED <<disk, log, chunks, ci, chapter_idx, drafts, raised, warned>>

ArgsNext == CallClean

SpecArgs == ArgsInit /\ [][ArgsNext]_vars

KeysOf(items) == [i \in 1..Len(items) |-> items[i][1]]

\* the value of key k in a mapping
ValueOf(items, k) == items[CHOOSE i \in 1..Len(items) : items[i][1] = k][2]

\* the string coercion of a value, a bool taken as 0 or 1
CoercedText(v) == IF v.t = "str" THEN v.s ELSE PyStrNat(v.i)

----------------------------------------------------------------------------
(* src/src/data_loader.py: DataLoader._parse_json_file *)

\* most tool calls in one function_call_info.json
MaxCalls == 2

\* call ids, as strings of digits: sorted() puts "10" between "1" and "2"
CallIds == {<<"1">>, <<"1", "0">>, <<"2">>}

StructureTools == {"generate_structure", "generate_bulk_structure"}
ExecTools == {"abacus_do_relax", "abacus_run", "abacus_cal_band"}

\* if k in ['kspacing', 'kpath', 'k_points', 'gamma_only'], of a prepare call
PrepareKptKeys == {"kspacing", "kpath", "k_points", "gamma_only"}

\* if k in ['kspacing', 'kpath'], of an execution, relax or band call
ExecKptKeys == {"kspacing", "kpath"}

HasKey(items, k) == \E i \in 1..Len(items) : items[i][1] = k

\* d[k] = v on a dict kept as its items in insertion order
SetItem(items, k, v) ==
    IF HasKey(items, k)
    THEN [i \in 1..Len(items) |-> IF items[i][1] = k THEN <<k, v>> ELSE items[i]]
    ELSE Append(items, <<k, v>>)

\* d.update(new)
RECURSIVE UpdateItems(_, _)
UpdateItems(items, new) ==
    IF Len(new) = 0 THEN items
    ELSE UpdateItems(SetItem(items, Head(new)[1], Head(new)[2]), Tail(new))

\* the physics step a call appends, <<>> when it appends none
PhysicsStep(tool_name, args) ==
    IF tool_name \in StructureTools THEN <<"Step: Build Initial Structure">>
    ELSE IF tool_name = "abacus_do_relax"
    THEN <<"Step: Geometry Optimization (Relaxation)">>
    ELSE IF tool_name = "abacus_cal_band"
    THEN <<"Step: Band Structure Calculation (Non-SCF)">>
    ELSE IF tool_name = "abacus_run"
    THEN LET calc_type == IF HasKey(args.items, "calculation")
                          THEN ValueOf(args.items, "calculation")
                          ELSE StrV(<<"scf">>)
         IN  IF Contains(PyStr(calc_type), <<"relax">>)
             THEN <<"Step: Geometry Optimization (Relaxation)">>
             ELSE <<"Step: Self-Consistent Field (SCF)">>
    ELSE <<>>

\* stru_params, the entries that are None left out
StruParams(args) ==
    (IF HasKey(args.items, "element")
     THEN << <<"element", ValueOf(args.items, "element")>> >> ELSE <<>>)
    \o (IF HasKey(args.items, "a")
        THEN << <<"lattice_constant", ValueOf(args.items, "a")>> >> ELSE <<>>)
    \o << <<"crystal_type",
            IF HasKey(args.items, "crystal_structure")
            THEN ValueOf(args.items, "crystal_structure")
            ELSE StrV(<<"custom">>)>> >>
    \o (IF HasKey(args.items, "wyckoff_positions")
        THEN << <<"wyckoff", ValueOf(args.items, "wyckoff_positions")>> >>
        ELSE <<>>)

\* the loop "for k, v in clean.items()": keys in kpt_keys go to KPT, the
\* others to INPUT
RECURSIVE RouteItems(_, _, _)
RouteItems(view, clean, kpt_keys) ==
    IF Len(clean) = 0 THEN view
    ELSE LET k == Head(clean)[1]
             v == Head(clean)[2]
         IN  RouteItems(IF k \in kpt_keys
                        THEN [view EXCEPT !.KPT = SetItem(@, k, v)]
                        ELSE [view EXCEPT !.INPUT = SetItem(@, k, v)],
                        Tail(clean), kpt_keys)

\* source_data of a prepare call: result['input_content'] when the result is a
\* dict holding a true value there, else args
SourceData(info) ==
    CASE info.result.kind = "dict" /\ info.result.items # <<>> ->
            [is_dict |-> TRUE, items |-> info.result.items]
      [] info.result.kind = "str" -> [is_dict |-> FALSE, items |-> <<>>]
      [] OTHER -> info.args

\* does the pass of the loop over this call raise?  (.get on an info or on
\* args that is no dict, .items() on cleaned data that is no dict)
CallRaises(info) ==
    \/ ~info.is_dict
    \/ info.name \in StructureTools \cup ExecTools /\ ~info.args.is_dict
    \/ info.name = "abacus_prepare" /\ ~SourceData(info).is_dict

\* one pass of the loop of _parse_json_file
MergeCall(view, info) ==
    LET stepped == [view EXCEPT !.physics_steps =
                        @ \o PhysicsStep(info.name, info.args)]
    IN  IF info.name \in StructureTools
        THEN [stepped EXCEPT !.STRU = UpdateItems(@, StruParams(info.args))]
        ELSE IF info.name = "abacus_prepare"
        THEN RouteItems(stepped,
                        clean_input_args(SourceData(info), TRUE).items,
                        PrepareKptKeys)
        ELSE IF info.name \in ExecTools
        THEN RouteItems(stepped, clean_input_args(info.args, TRUE).items,
                        ExecKptKeys)
        ELSE stepped

\* sorted(data.keys()): the calls in ascending order of their ids as strings
CallIdLess(x, y) == LexLess(x.call_id, y.call_id)

RECURSIVE InsertCall(_, _)
InsertCall(sorted, x) ==
    IF Len(sorted) = 0 THEN <<x>>
    ELSE IF CallIdLess(x, Head(sorted)) THEN <<x>> \o sorted
    ELSE <<Head(sorted)>> \o InsertCall(Tail(sorted), x)

RECURSIVE SortCalls(_)
SortCalls(calls) ==
    IF Len(calls) = 0 THEN <<>>
    ELSE InsertCall(SortCalls(SubSeq(calls, 1, Len(calls) - 1)), calls[Len(calls)])

RECURSIVE MergeCalls(_, _)
MergeCalls(view, calls) ==
    IF Len(calls) = 0 THEN view
    ELSE MergeCalls(MergeCall(view, Head(calls).info), Tail(calls))

\* _parse_json_file on what the file holds: "dict" (a mapping of call ids to
\* infos, in the order of the file), "list" (a JSON value without keys()) or
\* "malformed" (json.load raises).  An exception anywhere gives the empty
\* structure, whatever was merged before it.
parse_json_file(d) ==
    IF d.kind # "dict" \/ d.calls = <<>> THEN EmptyView
    ELSE IF \E i \in 1..Len(d.calls) : CallRaises(d.calls[i].info) THEN EmptyView
    ELSE MergeCalls(EmptyView, SortCalls(d.calls))

\* the arguments of the calls: mappings, and a value that is no mapping
NoMapping == [is_dict |-> FALSE, items |-> <<>>]
Mapping(items) == [is_dict |-> TRUE, items |-> items]

ParseArgs ==
    { Mapping(<< <<"calculation", StrV(<<"relax">>)>> >>),
      Mapping(<< <<"calculation", StrV(<<"scf">>)>> >>),
      Mapping(<< <<"gamma_only", BoolV(TRUE)>> >>),
      Mapping(<< <<"kspacing", IntV(1)>>, <<"work_dir", StrV(<<"W">>)>> >>),
      NoMapping }

\* result: without input_content, with a mapping there, with a string there
NoResult == [kind |-> "none", items |-> <<>>]

InputContents ==
    { [kind |-> "dict",
       items |-> << <<"gamma_only", IntV(1)>>, <<"calculation", StrV(<<"relax">>)>> >>],
      [kind |-> "str", items |-> <<>>] }

Info(name, args, result) ==
    [is_dict |-> TRUE, name |-> name, args |-> args, result |-> result]

\* the infos of the calls; the last one is an info that is no mapping (null)
CallInfos ==
    {Info(n, a, NoResult) : n \in ExecTools \cup {"abacus_prepare"}, a \in ParseArgs}
      \cup {Info("abacus_prepare", Mapping(<<>>), r) : r \in InputContents}
      \cup {Info("generate_bulk_structure",
                 Mapping(<< <<"element", StrV(<<"Si">>)>> >>), NoResult)}
      \cup {Info("other_tool", NoMapping, NoResult)}
      \cup {[is_dict |-> FALSE, name |-> "", args |-> NoMapping, result |-> NoResult]}

\* the mappings of up to MaxCalls calls, in every order of the file
CallSeqs ==
    { c \in UNION {[1..n -> [call_id : CallIds, info : CallInfos]] : n \in 0..MaxCalls} :
        \A i, j \in 1..Len(c) : i # j => c[i].call_id # c[j].call_id }

DataInputs ==
    {[kind |-> "dict", calls |-> c] : c \in CallSeqs}
      \cup {[kind |-> k, calls |-> <<>>] : k \in {"list", "malformed"}}

\* a file of the expected format: one prepare call
SampleData ==
    [kind |-> "dict",
     calls |-> << [call_id |-> <<"1">>,
                   info |-> Info("abacus_prepare",
                                 Mapping(<< <<"calculation", StrV(<<"relax">>)>> >>),
                                 NoResult)] >>]

ParseInit ==
    /\ pc = "parse_call"
    /\ data \in DataInputs
    /\ simulated_files = EmptyView
    /\ disk \in {d \in InitDisks : ~d.summary /\ d.drafts = <<>> /\ d.outline = <<>>
                                    /\ d.step1json = <<>>}
    /\ log = <<>>
    /\ chunks = <<>>
    /\ ci = 0
    /\ chapter_idx = 0
    /\ drafts = NoDrafts
    /\ raised = ""
    /\ warned = FALSE
    /\ ArgsIdle
    /\ ScanIdle
    /\ ExtractIdle

\* a call of _parse_json_file
CallParse ==
    /\ pc = "parse_call"
    /\ pc' = "parse_done"
    /\ simulated_files' = parse_json_file(data)
    /\ UNCHANGED <<data, argVars, scanVars, extractVars>>
    /\ UNCHANGED <<disk, log, chunks, ci, chapter_idx, drafts, raised, warned>>

ParseNext == CallParse

SpecParse == ParseInit /\ [][ParseNext]_vars

\* the arguments a call hands to clean_input_args, <<>> for the other tools
SuppliedItems(info) ==
    IF info.name = "abacus_prepare" THEN SourceData(info).items
    ELSE IF info.name \in ExecTools THEN info.args.items
    ELSE <<>>

ItemsOf(items) == {items[i] : i \in 1..Len(items)}

\* every call is well formed: no pass of the loop raises
NoCallRaises ==
    /\ data.kind = "dict"
    /\ \A i \in 1..Len(data.calls) : ~CallRaises(data.calls[i].info)

\* C11 (as claimed): in a file of execution, relax and band calls, every key
\* that survives clean_input_args is routed by the rule of the prepare calls:
\* kspacing, kpath, k_points and gamma_only are in the KPT group and not in
\* INPUT, every other surviving key is in INPUT and not in KPT.
C11_ExecRoutedAsPrepare ==
    (/\ pc = "parse_done"
     /\ NoCallRaises
     /\ \A i \in 1..Len(data.calls) : data.calls[i].info.name \in ExecTools) =>
        \A i \in 1..Len(data.calls) :
            \A it \in ItemsOf(clean_input_args(data.calls[i].info.args, TRUE).items) :
                IF it[1] \in {"kspacing", "kpath", "k_points", "gamma_only"}
                THEN /\ HasKey(simulated_files.KPT, it[1])
                     /\ ~HasKey(simulated_files.INPUT, it[1])
                ELSE /\ HasKey(simulated_files.INPUT, it[1])
                     /\ ~HasKey(simulated_files.KPT, it[1])

\* C14 (as claimed): the calls are merged in ascending order of their ids as
\* strings and the last write wins: for every key a call supplies (system
\* noise apart), with v the value of the last call in that order that supplies
\* it, the view holds the key with v (a bool as 0 or 1) when v is not the
\* known default, and does not hold the key at all when v is the default,
\* even if an earlier call supplied another value.
C14_LastWriteWins ==
    (pc = "parse_done" /\ NoCallRaises) =>
        LET calls == {data.calls[i] : i \in 1..Len(data.calls)}
            Suppliers(k) == {c \in calls : HasKey(SuppliedItems(c.info), k)}
            keys == {it[1] : it \in UNION {ItemsOf(SuppliedItems(c.info)) : c \in calls}}
            stored == ItemsOf(simulated_files.INPUT) \cup ItemsOf(simulated_files.KPT)
        IN  \A k \in keys \ SYSTEM_NOISE :
                LET last == CHOOSE c \in Suppliers(k) :
                                \A o \in Suppliers(k) :
                                    o = c \/ LexLess(o.call_id, c.call_id)
                    v == BoolToInt(ValueOf(SuppliedItems(last.info), k))
                IN  IF /\ k \in DOMAIN ABACUS_DEFAULTS
                       /\ PyStr(v) = PyStr(ABACUS_DEFAULTS[k])
                    THEN \A it \in stored : it[1] # k
                    ELSE <<k, v>> \in stored

----------------------------------------------------------------------------
(* src/src/data_loader.py: DataLoader.process *)

\* File names are token sequences: a stem token, then suffix tokens.
JSON_SFX == "_function_call_info.json"
TXT_SFX == "_output.txt"

\* A file of the raw tree: its directory, its name and what it holds: "ok"
\* (the expected format), "plain" (readable, but without the patterns looked
\* for: a transcript without question or summary, a JSON file holding an empty
\* value) or "bad" (undecodable or malformed: reading or parsing raises)
FileNames ==
    { <<"a", JSON_SFX>>, <<"a", TXT_SFX>>, <<"b", JSON_SFX>>,
      <<"a", JSON_SFX, JSON_SFX>>, <<"a", JSON_SFX, TXT_SFX>>, <<"notes.md">> }

TreeDirs == {"raw", "raw/sub"}

TreeFiles ==
    [dir : TreeDirs, name : FileNames, holds : {"ok", "plain", "bad"}]

\* the trees of up to MaxTreeFiles files, no name twice in a directory
RECURSIVE SubsetsUpTo(_, _)
SubsetsUpTo(S, n) ==
    IF n = 0 THEN {{}}
    ELSE LET smaller == SubsetsUpTo(S, n - 1)
         IN  smaller \cup {t \cup {x} : t \in smaller, x \in S}

Trees ==
    { t \in SubsetsUpTo(TreeFiles, MaxTreeFiles) :
        \A f, g \in t : (f.dir = g.dir /\ f.name = g.name) => f = g }

\* _parse_txt_file: (question, result); (None, None) when reading raises
parse_txt_file(f) ==
    CASE f.holds = "ok" -> <<"question", "result">>
      [] f.holds = "plain" -> <<"Question not found", "Summary not found in text output">>
      [] f.holds = "bad" -> <<"None", "None">>

\* self._parse_json_file(json_path): the view of what the file holds
TraceOf(f) ==
    CASE f.holds = "ok" -> parse_json_file(SampleData)
      [] f.holds = "plain" -> parse_json_file([kind |-> "dict", calls |-> <<>>])
      [] f.holds = "bad" -> parse_json_file([kind |-> "malformed", calls |-> <<>>])

\* base_name = filename.replace("_function_call_info.json", "")
BaseName(filename) == Replace(filename, <<JSON_SFX>>, <<>>)

\* os.path.exists(txt_path): the sibling in the same directory
SiblingOf(t, f) ==
    {g \in t : g.dir = f.dir /\ g.name = BaseName(f.name) \o <<TXT_SFX>>}

\* the JSON files process() turns into records
PairedFiles(t) ==
    {f \in t : EndsWith(f.name, <<JSON_SFX>>) /\ SiblingOf(t, f) # {}}

RecordOf(t, f) ==
    LET txt == CHOOSE g \in SiblingOf(t, f) : TRUE
    IN  [problem_id |-> BaseName(f.name), file_path |-> f.dir,
         question |-> parse_txt_file(txt)[1],
         workflow_trace |-> TraceOf(f),
         final_result_summary |-> parse_txt_file(txt)[2]]

ScanInit ==
    /\ pc = "scan_call"
    /\ tree \in Trees
    /\ report = [total_records |-> 0, records |-> <<>>]
    /\ disk \in {d \in InitDisks : ~d.summary /\ d.drafts = <<>> /\ d.outline = <<>>
                                    /\ d.step1json = <<>>}
    /\ log = <<>>
    /\ chunks = <<>>
    /\ ci = 0
    /\ chapter_idx = 0
    /\ drafts = NoDrafts
    /\ raised = ""
    /\ warned = FALSE
    /\ ArgsIdle
    /\ ExtractIdle
    /\ ParseIdle

\* DataLoader.process: os.walk visits the files in some order; the summary is
\* then saved (a failure to save is caught)
Process ==
    /\ pc = "scan_call"
    /\ pc' = "scan_done"
    /\ \E order \in PermsOf(PairedFiles(tree)) :
         report' = [total_records |-> Len(order),
                    records |-> [i \in 1..Len(order) |-> RecordOf(tree, order[i])]]
    /\ \E saved \in BOOLEAN :
         disk' = [disk EXCEPT !.summary = saved]
    /\ UNCHANGED <<tree, argVars, extractVars, parseVars>>
    /\ UNCHANGED <<log, chunks, ci, chapter_idx, drafts, raised, warned>>

ScanNext == Process

SpecScan == ScanInit /\ [][ScanNext]_vars

\* the name without its last token
StemOf(name) == SubSeq(name, 1, Len(name) - 1)

\* C10 (as claimed): total_records is the length of the records list and the
\* number of files <base>_function_call_info.json with a file <base>_output.txt
\* in the same directory, <base> being the name without that suffix; a JSON
\* file without the sibling gives no record, a malformed pair gives one.
C10_RecordCount ==
    pc = "scan_done" =>
        /\ report.total_records = Len(report.records)
        /\ report.total_records =
             Cardinality({f \in tree :
                 /\ f.name[Len(f.name)] = JSON_SFX
                 /\ \E g \in tree :
                      g.dir = f.dir /\ g.name = StemOf(f.name) \o <<TXT_SFX>>})

----------------------------------------------------------------------------
(* src/src/utils.py: extract_mapped_case_ids on its own *)

\* the longest chapter block, in tokens
MaxBlockLen == 4

BlockAlphabet == LabelTokens \cup ProblemTokens \cup {"NL", "SP", "W"}

\* "Mapped Case ID: problem_3 and Mapped Case ID: problem_7"
TwoLabelBlock == <<"LBL", "SP", "P1", "SP", "W", "SP", "LBL", "SP", "P2">>

\* the chapter blocks of up to MaxBlockLen tokens, and the two-label block
Blocks ==
    UNION {[1..n -> BlockAlphabet] : n \in 0..MaxBlockLen} \cup {TwoLabelBlock}

ExtractInit ==
    /\ pc = "extract_call"
    /\ block \in Blocks
    /\ ids = {}
    /\ disk \in {d \in InitDisks : ~d.summary /\ d.drafts = <<>> /\ d.outline = <<>>
                                    /\ d.step1json = <<>>}
    /\ log = <<>>
    /\ chunks = <<>>
    /\ ci = 0
    /\ chapter_idx = 0
    /\ drafts = NoDrafts
    /\ raised = ""
    /\ warned = FALSE
    /\ ArgsIdle
    /\ ScanIdle
    /\ ParseIdle

\* a call of extract_mapped_case_ids
CallExtract ==
    /\ pc = "extract_call"
    /\ pc' = "extract_done"
    /\ ids' = extract_mapped_case_ids(block)
    /\ UNCHANGED <<block, argVars, scanVars, parseVars>>
    /\ UNCHANGED <<disk, log, chunks, ci, chapter_idx, drafts, raised, warned>>

ExtractNext == CallExtract

SpecExtract == ExtractInit /\ [][ExtractNext]_vars

\* C12 (as claimed): the ids returned are the problem tokens that are the
\* first problem token behind an occurrence of the label (either letter case)
\* anywhere in the rest of the block, on the label's line or on a later one;
\* the result is empty only if no label is followed by a problem token; the
\* two-label block gives both of its ids.
C12_FirstTokenAfterLabel ==
    pc = "extract_done" =>
        /\ ids = { block[j] : j \in
                     { j \in 1..Len(block) :
                         /\ block[j] \in ProblemTokens
                         /\ \E i \in 1..(j - 1) :
                              /\ block[i] \in LabelTokens
                              /\ \A k \in (i + 1)..(j - 1) :
                                   block[k] \notin ProblemTokens } }
        /\ block = TwoLabelBlock => ids = {"P1", "P2"}

====
